---- MODULE Spec2Model ----
(***************************************************************************)
(* Model of src/server.ts: the POST /api/analyze handler, getVideoId and   *)
(* fetchTranscript.  Strings are sequences of one-character strings, so    *)
(* that the regular expressions and replace chains of the source are       *)
(* computed character by character.  Values that the code only copies      *)
(* (error messages, titles, remote URLs) are opaque TLA+ strings.          *)
(***************************************************************************)
EXTENDS Integers, Sequences, FiniteSets, TLC

VARIABLES pc, body, videoId, question, captionTracks, captionUrl,
          transcript, request, calls, res,
          bpc, bt, bmax, bout, bout2,
          ppc, elems, xml, texts, parsed

vars == <<pc, body, videoId, question, captionTracks, captionUrl,
          transcript, request, calls, res,
          bpc, bt, bmax, bout, bout2,
          ppc, elems, xml, texts, parsed>>

pipeVars == <<pc, body, videoId, question, captionTracks, captionUrl,
              transcript, request, calls, res>>
budgetVars == <<bpc, bt, bmax, bout, bout2>>
parseVars == <<ppc, elems, xml, texts, parsed>>

(***************************************************************************)
(* Bounds of the model.                                                    *)
(***************************************************************************)
\* Stand-in for `const maxChars = 100000` (server.ts:134), scaled down so
\* that transcripts below, at and above the budget are enumerable.
maxChars == 3
\* Longest caption-track list a video page carries.
MaxTracks == 2
\* Largest limit and longest raw string tried on the budgeting step alone.
MaxLimit == 2
MaxRawLen == 3
\* Caption documents built for the parser alone: <text> elements per
\* document and content pieces (characters and escapes) per document.
MaxElems == 2
MaxPieces == 2

(***************************************************************************)
(* Strings.                                                                *)
(***************************************************************************)
Min(a, b) == IF a < b THEN a ELSE b

\* String.prototype.substring(from0, to0) with 0 <= from0 <= to0, clamped.
substring(s, from0, to0) == SubSeq(s, from0 + 1, Min(to0, Len(s)))

\* Does p occur in s starting at (1-based) position i?
IsPrefixAt(p, s, i) ==
    /\ i >= 1
    /\ i + Len(p) - 1 <= Len(s)
    /\ \A k \in 1..Len(p) : s[i + k - 1] = p[k]

\* Leftmost position >= i at which p occurs in s, 0 when there is none.
RECURSIVE IndexOf(_, _, _)
IndexOf(p, s, i) ==
    IF i + Len(p) - 1 > Len(s) THEN 0
    ELSE IF IsPrefixAt(p, s, i) THEN i
    ELSE IndexOf(p, s, i + 1)

\* String.prototype.includes
includes(s, p) == IndexOf(p, s, 1) # 0

\* s.replace(/p/g, r) for a literal, non-empty p: left to right, no overlap.
RECURSIVE ReplaceAllFrom(_, _, _, _)
ReplaceAllFrom(s, p, r, i) ==
    IF i > Len(s) THEN <<>>
    ELSE IF IsPrefixAt(p, s, i) THEN r \o ReplaceAllFrom(s, p, r, i + Len(p))
    ELSE <<s[i]>> \o ReplaceAllFrom(s, p, r, i + 1)

ReplaceAll(s, p, r) == ReplaceAllFrom(s, p, r, 1)

\* s.replace(p, r) with a string pattern: the first occurrence only; an
\* empty pattern matches at the start and inserts r there.
ReplaceFirst(s, p, r) ==
    LET i == IndexOf(p, s, 1)
    IN IF i = 0 THEN s
       ELSE SubSeq(s, 1, i - 1) \o r \o SubSeq(s, i + Len(p), Len(s))

\* The \s class, restricted to the whitespace the model's strings use.
WhiteSpace == {" ", "\n"}

RECURSIVE TrimLeft(_)
TrimLeft(s) ==
    IF s # <<>> /\ Head(s) \in WhiteSpace THEN TrimLeft(Tail(s)) ELSE s

RECURSIVE TrimRight(_)
TrimRight(s) ==
    IF s # <<>> /\ s[Len(s)] \in WhiteSpace
    THEN TrimRight(SubSeq(s, 1, Len(s) - 1)) ELSE s

\* String.prototype.trim
trim(s) == TrimRight(TrimLeft(s))

\* Array.prototype.join
RECURSIVE join(_, _)
join(ss, sep) ==
    IF ss = <<>> THEN <<>>
    ELSE IF Len(ss) = 1 THEN ss[1]
    ELSE ss[1] \o sep \o join(Tail(ss), sep)

\* Concatenation of a sequence of strings.
Flatten(ss) == join(ss, <<>>)

\* Sequences over S of length lo..hi.
SeqsOf(S, lo, hi) == UNION {[1..n -> S] : n \in lo..hi}

(***************************************************************************)
(* getVideoId (server.ts:24-33) and the input parsing of the handler.      *)
(***************************************************************************)
S_http == <<"h","t","t","p",":","/","/">>
S_https == <<"h","t","t","p","s",":","/","/">>
S_watch == <<"y","o","u","t","u","b","e",".","c","o","m","/","w","a","t","c","h","?","v","=">>
S_short == <<"y","o","u","t","u",".","b","e","/">>
S_embed == <<"y","o","u","t","u","b","e",".","c","o","m","/","e","m","b","e","d","/">>
S_other == <<"e","x",".","c","o","m","/">>

\* The alternatives of the pattern of getVideoId, in the order written.
IdShapes == <<S_watch, S_short, S_embed>>
\* The characters excluded by the capture group [^&\n?#]+
IdStop == {"&", "\n", "?", "#"}

\* Longest run of characters outside `stop` starting at position i.
RECURSIVE RunFrom(_, _, _)
RunFrom(s, i, stop) ==
    IF i > Len(s) \/ s[i] \in stop THEN <<>>
    ELSE <<s[i]>> \o RunFrom(s, i + 1, stop)

\* The capture of the pattern anchored at position i, <<>> when it does not
\* match there (the group needs at least one character).
IdAt(url, i) ==
    LET hits == {k \in 1..Len(IdShapes) :
                    /\ IsPrefixAt(IdShapes[k], url, i)
                    /\ RunFrom(url, i + Len(IdShapes[k]), IdStop) # <<>>}
    IN IF hits = {} THEN <<>>
       ELSE LET k == CHOOSE h \in hits : \A g \in hits : h <= g
            IN RunFrom(url, i + Len(IdShapes[k]), IdStop)

RECURSIVE IdFrom(_, _)
IdFrom(url, i) ==
    IF i > Len(url) THEN <<>>
    ELSE IF IdAt(url, i) # <<>> THEN IdAt(url, i)
    ELSE IdFrom(url, i + 1)

\* Variant: a URL of no known shape is taken as the id itself.
getVideoId_OrUrl(url) == IF IdFrom(url, 1) # <<>> THEN IdFrom(url, 1) ELSE url

\* getVideoId: match[1] of the leftmost match, or null.  null is written
\* <<>>: the capture is never empty, and the caller only tests !videoId.
getVideoId(url) == IdFrom(url, 1)

\* input.match(/(https?:\/\/[^\s]+)/): the leftmost scheme followed by at
\* least one non-space character, with the whole non-space run; '' if none.
RECURSIVE UrlFrom(_, _)
UrlFrom(input, i) ==
    IF i > Len(input) THEN <<>>
    ELSE IF IsPrefixAt(S_http, input, i)
            /\ RunFrom(input, i + Len(S_http), WhiteSpace) # <<>>
         THEN S_http \o RunFrom(input, i + Len(S_http), WhiteSpace)
    ELSE IF IsPrefixAt(S_https, input, i)
            /\ RunFrom(input, i + Len(S_https), WhiteSpace) # <<>>
         THEN S_https \o RunFrom(input, i + Len(S_https), WhiteSpace)
    ELSE UrlFrom(input, i + 1)

urlOf(input) == UrlFrom(input, 1)

DefaultQuestion == <<"What is this video about?">>

\* input.replace(url, '').trim() || 'What is this video about?'
questionOf(input) ==
    LET q == trim(ReplaceFirst(input, urlOf(input), <<>>))
    IN IF q = <<>> THEN DefaultQuestion ELSE q

(***************************************************************************)
(* Request bodies: { input } with the input absent, or a string made of an *)
(* optional leading word, scheme, host/path shape, id and trailing text.   *)
(***************************************************************************)
InPrefix == {<<>>, <<"q", " ">>}
InScheme == {<<>>, S_http, S_https}
InShape == {<<>>, S_watch, S_short, S_embed, S_other}
InId == {<<>>, <<"a", "b">>}
InSuffix == {<<>>, <<"&", "t">>, <<" ", "w", "h", "y">>, <<"#">>}

Inputs ==
    {a \o b \o c \o d \o e :
        a \in InPrefix, b \in InScheme, c \in InShape, d \in InId, e \in InSuffix}

Bodies ==
    {[hasInput |-> FALSE, input |-> <<>>]}
        \cup {[hasInput |-> TRUE, input |-> i] : i \in Inputs}

(***************************************************************************)
(* fetchTranscript (server.ts:36-93): track selection and caption parsing. *)
(***************************************************************************)
S_en == <<"e", "n">>

\* Caption tracks as the page lists them: languageCode, the optional vssId
\* and baseUrl.  The baseUrl of the i-th listed track is <<"u", i>>.
TrackKinds ==
    { [languageCode |-> "en", hasVssId |-> FALSE, vssId |-> <<>>],
      [languageCode |-> "fr", hasVssId |-> TRUE, vssId |-> <<".", "f", "r">>],
      [languageCode |-> "de", hasVssId |-> TRUE, vssId |-> <<"a", ".", "e", "n">>],
      [languageCode |-> "es", hasVssId |-> FALSE, vssId |-> <<>>] }

TrackLists ==
    {[i \in 1..Len(ks) |->
        [languageCode |-> ks[i].languageCode, hasVssId |-> ks[i].hasVssId,
         vssId |-> ks[i].vssId, baseUrl |-> <<"u", i>>]] :
            ks \in SeqsOf(TrackKinds, 0, MaxTracks)}

NoUrl == <<>>

\* track.languageCode === 'en' || track.vssId?.includes('en')
isEnglish(track) ==
    \/ track.languageCode = "en"
    \/ track.hasVssId /\ includes(track.vssId, S_en)

\* The for-loop of lines 62-67: the first track that passes the test sets
\* captionUrl and breaks; `url` is the value captionUrl holds so far.
RECURSIVE selectFrom(_, _, _)
selectFrom(tracks, i, url) ==
    IF i > Len(tracks) THEN url
    ELSE IF isEnglish(tracks[i]) THEN tracks[i].baseUrl
    ELSE selectFrom(tracks, i + 1, url)

\* Variant: the loop without its break, so the last English track wins.
RECURSIVE selectFrom_NoBreak(_, _, _)
selectFrom_NoBreak(tracks, i, url) ==
    IF i > Len(tracks) THEN url
    ELSE IF isEnglish(tracks[i])
         THEN selectFrom_NoBreak(tracks, i + 1, tracks[i].baseUrl)
    ELSE selectFrom_NoBreak(tracks, i + 1, url)

selectCaptionUrl_NoBreak(tracks) ==
    selectFrom_NoBreak(tracks, 1, tracks[1].baseUrl)

\* Lines 61-67, for a non-empty list.
selectCaptionUrl(tracks) == selectFrom(tracks, 1, tracks[1].baseUrl)

S_textOpen == <<"<", "t", "e", "x", "t">>
S_textClose == <<"<", "/", "t", "e", "x", "t", ">">>
S_gt == <<">">>
S_docOpen == <<"<", "t", "r", "a", "n", "s", "c", "r", "i", "p", "t", ">">>
S_docClose == <<"<", "/", "t", "r", "a", "n", "s", "c", "r", "i", "p", "t", ">">>

E_amp == <<"&", "a", "m", "p", ";">>
E_lt == <<"&", "l", "t", ";">>
E_gt == <<"&", "g", "t", ";">>
E_quot == <<"&", "q", "u", "o", "t", ";">>
E_apos == <<"&", "#", "3", "9", ";">>

\* captionXml.matchAll(/<text[^>]*>(.*?)<\/text>/gs): the captures, left to
\* right.  At "<text" the class [^>]* runs to the first ">", and the lazy
\* group ends at the first "</text>" after it; the next match starts after
\* the previous one.
RECURSIVE textMatchesFrom(_, _)
textMatchesFrom(s, i) ==
    LET j == IndexOf(S_textOpen, s, i)
        k == IF j = 0 THEN 0 ELSE IndexOf(S_gt, s, j + Len(S_textOpen))
        e == IF k = 0 THEN 0 ELSE IndexOf(S_textClose, s, k + 1)
    IN IF e = 0 THEN <<>>
       ELSE <<SubSeq(s, k + 1, e - 1)>>
                \o textMatchesFrom(s, e + Len(S_textClose))

textMatches(s) == textMatchesFrom(s, 1)

\* Variant: the same replaces with &amp; decoded last.
decodeEntities_AmpLast(t) ==
    LET r1 == ReplaceAll(t, E_lt, <<"<">>)
        r2 == ReplaceAll(r1, E_gt, <<">">>)
        r3 == ReplaceAll(r2, E_quot, <<"\"">>)
        r4 == ReplaceAll(r3, E_apos, <<"'">>)
        r5 == ReplaceAll(r4, E_amp, <<"&">>)
    IN ReplaceAll(r5, <<"\n">>, <<" ">>)

\* Lines 78-84: the replace chain, in the order written.
decodeEntities(t) ==
    LET r1 == ReplaceAll(t, E_amp, <<"&">>)
        r2 == ReplaceAll(r1, E_lt, <<"<">>)
        r3 == ReplaceAll(r2, E_gt, <<">">>)
        r4 == ReplaceAll(r3, E_quot, <<"\"">>)
        r5 == ReplaceAll(r4, E_apos, <<"'">>)
    IN ReplaceAll(r5, <<"\n">>, <<" ">>)

\* Lines 75-86: texts, one decoded entry per match.
decodeAll(ms) == [i \in 1..Len(ms) |-> decodeEntities(ms[i])]

\* Lines 73-88: the transcript of a caption document.
parseCaptions(captionXml) == join(decodeAll(textMatches(captionXml)), <<" ">>)

\* A caption document: <text attrs>content</text> elements in a wrapper.
renderElem(el) == S_textOpen \o el.attrs \o S_gt \o el.content \o S_textClose

renderDoc(els) ==
    S_docOpen \o Flatten([i \in 1..Len(els) |-> renderElem(els[i])]) \o S_docClose

(***************************************************************************)
(* The truncation step of the handler (server.ts:133-137).                 *)
(***************************************************************************)
Marker ==
    <<".", ".", ".", " ", "[", "t", "r", "a", "n", "s", "c", "r", "i", "p", "t",
      " ", "t", "r", "u", "n", "c", "a", "t", "e", "d", "]">>

\* Variant: the marker is appended without cutting the text.
budget_NoCut(t, max) == IF Len(t) > max THEN t \o Marker ELSE t

\* Variant: the cut keeps one character too many.
budget_CutLate(t, max) ==
    IF Len(t) > max THEN substring(t, 0, max + 1) \o Marker ELSE t

budget(t, max) ==
    IF Len(t) > max THEN substring(t, 0, max) \o Marker ELSE t

(***************************************************************************)
(* What the outside world can answer to the calls of one request.          *)
(***************************************************************************)
\* Contents of the <text> elements of the caption documents of the pipeline:
\* empty, blank, short, exactly maxChars long, longer, and with an escape.
PipeContents ==
    { <<>>, <<" ">>, <<"a">>,
      [i \in 1..maxChars |-> "b"],
      [i \in 1..(maxChars + 1) |-> "c"],
      <<"x">> \o E_lt \o <<"y">> }

S_errorPage == <<"E", "r", "r", "o", "r">>

plainElem(c) == [attrs |-> <<>>, content |-> c]

\* Bodies a caption URL can answer with: a document without elements, one
\* element of each content, two elements, an element with attributes, and
\* an error page.
CaptionBodies ==
    {renderDoc(<<>>), S_errorPage,
     renderDoc(<<plainElem(<<" ">>), plainElem(<<>>)>>),
     renderDoc(<<plainElem(<<"a">>), plainElem(<<"b", "\n">>)>>),
     renderDoc(<<[attrs |-> <<" ", "d", "=", "1">>, content |-> <<"a">>]>>)}
    \cup {renderDoc(<<plainElem(c)>>) : c \in PipeContents}

\* fetch(watchUrl) and the scan of the page: the fetch or text() throws, the
\* page has no "captionTracks" listing, the listing is not valid JSON, or it
\* is a (possibly empty) list of tracks.
PageOutcomes ==
    {[kind |-> k, tracks |-> <<>>] : k \in {"throws", "noListing", "unparseable"}}
        \cup {[kind |-> "listing", tracks |-> ts] : ts \in TrackLists}

\* fetch(captionUrl): throws, or answers with a status class and a body.
CaptionOutcomes ==
    {[kind |-> "throws", ok |-> FALSE, text |-> <<>>]}
        \cup {[kind |-> "response", ok |-> o, text |-> b] :
                o \in BOOLEAN, b \in CaptionBodies}

\* anthropic.messages.create: throws an error with a message, or resolves
\* with a message whose content is a list of typed blocks.
InferErrors == {"529 overloaded_error", "401 authentication_error"}
TextBlock(t) == [type |-> "text", text |-> t]
ToolBlock == [type |-> "tool_use", text |-> ""]
InferContents ==
    { <<>>, <<TextBlock("It is about X.")>>,
      <<TextBlock("First."), ToolBlock, TextBlock("Second.")>> }
InferOutcomes ==
    {[kind |-> "throws", message |-> m, content |-> <<>>] : m \in InferErrors}
        \cup {[kind |-> "resolves", message |-> "", content |-> c] :
                c \in InferContents}

\* fetch(oembed): throws; answers non-ok; answers ok with a body on which
\* json() throws, with the JSON value null (reading .title throws), or with
\* an object.  A field "" stands for an absent or empty (falsy) field.
OembedOutcomes ==
    {[kind |-> k, title |-> "", thumbnail_url |-> <<>>] :
        k \in {"throws", "notOk", "badJson", "jsonNull"}}
        \cup {[kind |-> "object", title |-> t, thumbnail_url |-> u] :
                t \in {"", "Some Title"},
                u \in {<<>>, <<"https://i.ytimg.com/vi/x/hqdefault.jpg">>}}

(***************************************************************************)
(* The handler of POST /api/analyze (server.ts:96-201).                    *)
(***************************************************************************)
NoRequest == [sent |-> FALSE, transcript |-> <<>>, question |-> <<>>]

NoRes ==
    [status |-> 0, error |-> "", message |-> "", analysis |-> <<>>,
     title |-> "", thumbnailUrl |-> <<>>, videoUrl |-> <<>>, duration |-> ""]

\* res.status(400).json({ error })
Res400(err) == [NoRes EXCEPT !.status = 400, !.error = err]

\* Variant: the 500 response without the error's own message.
Res500_NoDetail(msg) ==
    [NoRes EXCEPT !.status = 500, !.error = "Failed to analyze video",
                  !.message = "Failed to analyze video"]

\* res.status(500).json({ error: 'Failed to analyze video', message })
Res500(msg) ==
    [NoRes EXCEPT !.status = 500, !.error = "Failed to analyze video",
                  !.message = msg]

CaptionError ==
    "Could not get transcript. The video may not have captions, or they may be disabled."

watchUrlOf(id) == <<"https://www.youtube.com/watch?v=">> \o id
defaultThumbnail(id) ==
    <<"https://img.youtube.com/vi/">> \o id \o <<"/maxresdefault.jpg">>

\* message.content.filter(type === 'text').map(text).join('\n')
RECURSIVE textsOf(_)
textsOf(content) ==
    IF content = <<>> THEN <<>>
    ELSE IF Head(content).type = "text"
         THEN <<<<Head(content).text>>>> \o textsOf(Tail(content))
    ELSE textsOf(Tail(content))

responseTextOf(content) == join(textsOf(content), <<"\n">>)

\* Variant: only the empty string counts as empty.
isEmptyTranscript_NoTrim(t) == t = <<>>

\* !transcript || transcript.trim().length === 0
isEmptyTranscript(t) == t = <<>> \/ Len(trim(t)) = 0

\* The log of outbound calls of the request: each call as it is issued, then
\* how it came back (ret) and with what (out).
Issue(log, c) ==
    Append(log, [call |-> c, ret |-> "pending", out |-> [kind |-> "pending"]])
Returned(r, o) == [calls EXCEPT ![Len(calls)].ret = r, ![Len(calls)].out = o]

\* Of a page, the log keeps what the scan found and how many tracks.
PageSeen(o) == [kind |-> o.kind, n |-> Len(o.tracks)]

\* The locals of fetchTranscript, gone when it returns or throws.
DropLocals == captionTracks' = <<>> /\ captionUrl' = NoUrl

\* The catch of lines 124-129.
TranscriptError ==
    /\ res' = Res400(CaptionError)
    /\ pc' = "done"
    /\ DropLocals
    /\ UNCHANGED <<transcript, request>>

\* Lines 98-115 and the start of fetchTranscript up to the page fetch.
ParseInput ==
    /\ pc = "start"
    /\ LET input == body.input
           url == urlOf(input)
           id == getVideoId(url)
       IN IF ~body.hasInput \/ input = <<>>
          THEN /\ res' = Res400("Input is required")
               /\ pc' = "done"
               /\ UNCHANGED <<videoId, question, calls>>
          ELSE /\ question' = questionOf(input)
               /\ videoId' = id
               /\ IF id = <<>>
                  THEN /\ res' = Res400("Invalid YouTube URL")
                       /\ pc' = "done"
                       /\ UNCHANGED calls
                  ELSE /\ calls' = Issue(calls, "page")
                       /\ pc' = "pageFetch"
                       /\ UNCHANGED res
    /\ UNCHANGED <<body, captionTracks, captionUrl, transcript, request>>
    /\ UNCHANGED <<budgetVars, parseVars>>


\* Lines 40-70: the page comes back, the listing is read, a track is chosen
\* and its baseUrl is requested.
PageFetch(o) ==
    /\ pc = "pageFetch"
    /\ IF o.kind # "listing" \/ Len(o.tracks) = 0
       THEN /\ calls' = Returned(IF o.kind = "throws" THEN "threw" ELSE "ok",
                                 PageSeen(o))
            /\ TranscriptError
       ELSE /\ captionTracks' = o.tracks
            /\ captionUrl' = selectCaptionUrl(o.tracks)
            /\ calls' = Issue(Returned("ok", PageSeen(o)), "caption")
            /\ pc' = "captionFetch"
            /\ UNCHANGED <<transcript, request, res>>
    /\ UNCHANGED <<body, videoId, question>>
    /\ UNCHANGED <<budgetVars, parseVars>>

\* Lines 70-88 and 120-159: the caption document comes back, is parsed,
\* checked, truncated, and the inference request is sent.
CaptionFetch(o) ==
    /\ pc = "captionFetch"
    /\ IF o.kind = "throws"
       THEN /\ calls' = Returned("threw", o)
            /\ TranscriptError
       ELSE LET t == parseCaptions(o.text)
                ret == IF o.ok THEN "ok" ELSE "httpError"
            IN IF isEmptyTranscript(t)
               THEN /\ calls' = Returned(ret, o)
                    /\ TranscriptError
               ELSE /\ transcript' = budget(t, maxChars)
                    /\ request' = [sent |-> TRUE,
                                   transcript |-> budget(t, maxChars),
                                   question |-> question]
                    /\ calls' = Issue(Returned(ret, o), "inference")
                    /\ pc' = "infer"
                    /\ DropLocals
                    /\ UNCHANGED res
    /\ UNCHANGED <<body, videoId, question>>
    /\ UNCHANGED <<budgetVars, parseVars>>

\* Lines 140-174 and 194-200: the inference call comes back; on a throw the
\* outer catch answers 500, otherwise the oEmbed lookup is requested.
Infer(o) ==
    /\ pc = "infer"
    /\ IF o.kind = "throws"
       THEN /\ calls' = Returned("threw", o)
            /\ res' = Res500(o.message)
            /\ pc' = "done"
       ELSE /\ calls' = Issue(Returned("ok", o), "oembed")
            /\ res' = [res EXCEPT !.analysis = responseTextOf(o.content)]
            /\ pc' = "oembed"
    /\ UNCHANGED <<body, videoId, question, captionTracks, captionUrl,
                   transcript, request>>
    /\ UNCHANGED <<budgetVars, parseVars>>

\* Variant: the lookup without its try/catch: a throw of fetch, json() or
\* of reading the body reaches the outer catch.
Oembed_NoCatch(o) ==
    /\ pc = "oembed"
    /\ LET videoTitle == IF o.kind = "object" /\ o.title # "" THEN o.title
                         ELSE "YouTube Video"
           thumbnailUrl == IF o.kind = "object" /\ o.thumbnail_url # <<>>
                           THEN o.thumbnail_url
                           ELSE <<"https://img.youtube.com/vi/">> \o videoId
                                    \o <<"/maxresdefault.jpg">>
       IN res' = IF o.kind \in {"throws", "badJson", "jsonNull"}
                 THEN [NoRes EXCEPT !.status = 500,
                                    !.error = "Failed to analyze video",
                                    !.message = "fetch failed"]
                 ELSE [res EXCEPT !.status = 200,
                                  !.title = videoTitle,
                                  !.thumbnailUrl = thumbnailUrl,
                                  !.videoUrl = <<"https://www.youtube.com/watch?v=">>
                                                  \o videoId,
                                  !.duration = "N/A"]
    /\ calls' = Returned(CASE o.kind = "throws" -> "threw"
                           [] o.kind = "notOk" -> "httpError"
                           [] OTHER -> "ok", o)
    /\ pc' = "done"
    /\ UNCHANGED <<body, videoId, question, captionTracks, captionUrl,
                   transcript, request>>
    /\ UNCHANGED <<budgetVars, parseVars>>

\* Lines 168-192: the lookup comes back and the 200 response is sent.
\* `analysis` of res holds responseText until then.
Oembed(o) ==
    /\ pc = "oembed"
    /\ LET useBody == o.kind = "object"
           videoTitle == IF useBody /\ o.title # "" THEN o.title
                         ELSE "YouTube Video"
           thumbnailUrl == IF useBody /\ o.thumbnail_url # <<>>
                           THEN o.thumbnail_url
                           ELSE defaultThumbnail(videoId)
       IN res' = [res EXCEPT !.status = 200,
                             !.title = videoTitle,
                             !.thumbnailUrl = thumbnailUrl,
                             !.videoUrl = watchUrlOf(videoId),
                             !.duration = "N/A"]
    /\ calls' = Returned(CASE o.kind = "throws" -> "threw"
                           [] o.kind = "notOk" -> "httpError"
                           [] OTHER -> "ok", o)
    /\ pc' = "done"
    /\ UNCHANGED <<body, videoId, question, captionTracks, captionUrl,
                   transcript, request>>
    /\ UNCHANGED <<budgetVars, parseVars>>

BudgetIdle == bpc = "off" /\ bt = <<>> /\ bmax = 0 /\ bout = <<>> /\ bout2 = <<>>
ParseIdle ==
    ppc = "off" /\ elems = <<>> /\ xml = <<>> /\ texts = <<>> /\ parsed = <<>>
PipeIdle ==
    /\ pc = "off" /\ body = [hasInput |-> FALSE, input |-> <<>>]
    /\ videoId = <<>> /\ question = <<>> /\ captionTracks = <<>>
    /\ captionUrl = NoUrl /\ transcript = <<>> /\ request = NoRequest
    /\ calls = <<>> /\ res = NoRes

\* A request arrives with some body; nothing has been done for it yet.
Init ==
    /\ pc = "start"
    /\ body \in Bodies
    /\ videoId = <<>> /\ question = <<>> /\ captionTracks = <<>>
    /\ captionUrl = NoUrl /\ transcript = <<>> /\ request = NoRequest
    /\ calls = <<>> /\ res = NoRes
    /\ BudgetIdle /\ ParseIdle

Next ==
    \/ ParseInput
    \/ \E o \in PageOutcomes : PageFetch(o)
    \/ \E o \in CaptionOutcomes : CaptionFetch(o)
    \/ \E o \in InferOutcomes : Infer(o)
    \/ \E o \in OembedOutcomes : Oembed(o)

Spec == Init /\ [][Next]_vars

(***************************************************************************)
(* The truncation step on its own: budget applied to a raw string, then to *)
(* its own result, for every limit 0..MaxLimit.                            *)
(***************************************************************************)
RawChars == {"a", ".", "]"}
RawStrings == SeqsOf(RawChars, 0, MaxRawLen)

InitBudget ==
    /\ bpc = "raw"
    /\ bt \in RawStrings
    /\ bmax \in 0..MaxLimit
    /\ bout = <<>> /\ bout2 = <<>>
    /\ PipeIdle /\ ParseIdle

\* transcript = budget(transcript)
BudgetOnce ==
    /\ bpc = "raw"
    /\ bout' = budget(bt, bmax)
    /\ bpc' = "once"
    /\ UNCHANGED <<bt, bmax, bout2>>
    /\ UNCHANGED <<pipeVars, parseVars>>

\* ... and once more on the result.
BudgetAgain ==
    /\ bpc = "once"
    /\ bout2' = budget(bout, bmax)
    /\ bpc' = "twice"
    /\ UNCHANGED <<bt, bmax, bout>>
    /\ UNCHANGED <<pipeVars, parseVars>>

NextBudget == BudgetOnce \/ BudgetAgain

SpecBudget == InitBudget /\ [][NextBudget]_vars

(***************************************************************************)
(* The caption parser on its own: a document of up to MaxElems elements is *)
(* put together piece by piece, then parsed as lines 73-88 do.             *)
(***************************************************************************)
Pieces ==
    { <<"a">>, <<"\n">>, E_amp, E_lt, E_gt, E_quot, E_apos,
      <<"l", "t", ";">>, <<"a", "m", "p", ";">> }
ElemAttrs == {<<>>, <<" ", "d", "=", "1">>}

RECURSIVE SumPieces(_)
SumPieces(els) ==
    IF els = <<>> THEN 0 ELSE Head(els).pieces + SumPieces(Tail(els))

InitParse ==
    /\ ppc = "build"
    /\ elems = <<>> /\ xml = <<>> /\ texts = <<>> /\ parsed = <<>>
    /\ PipeIdle /\ BudgetIdle

\* The platform's document gets one more <text> element.
AddElem(a) ==
    /\ ppc = "build"
    /\ Len(elems) < MaxElems
    /\ elems' = Append(elems, [attrs |-> a, content |-> <<>>, pieces |-> 0])
    /\ UNCHANGED <<ppc, xml, texts, parsed>>
    /\ UNCHANGED <<pipeVars, budgetVars>>

\* The last element's content gets one more character or escape.
AddPiece(p) ==
    /\ ppc = "build"
    /\ elems # <<>>
    /\ SumPieces(elems) < MaxPieces
    /\ elems' = [elems EXCEPT ![Len(elems)].content = @ \o p,
                              ![Len(elems)].pieces = @ + 1]
    /\ UNCHANGED <<ppc, xml, texts, parsed>>
    /\ UNCHANGED <<pipeVars, budgetVars>>

\* Lines 71-88: captionXml is read and parsed into texts and the transcript.
ParseDoc ==
    /\ ppc = "build"
    /\ xml' = renderDoc(elems)
    /\ texts' = decodeAll(textMatches(renderDoc(elems)))
    /\ parsed' = parseCaptions(renderDoc(elems))
    /\ ppc' = "parsed"
    /\ UNCHANGED elems
    /\ UNCHANGED <<pipeVars, budgetVars>>

NextParse ==
    \/ \E a \in ElemAttrs : AddElem(a)
    \/ \E p \in Pieces : AddPiece(p)
    \/ ParseDoc

SpecParse == InitParse /\ [][NextParse]_vars

(***************************************************************************)
(* Properties.                                                             *)
(***************************************************************************)
CallNames == <<"page", "caption", "inference", "oembed">>

Entries(c) == {i \in 1..Len(calls) : calls[i].call = c}
Issued(c) == Entries(c) # {}
\* The call c has come back with ret r.
Came(c, r) == \E i \in Entries(c) : calls[i].ret = r
OutOf(c) == calls[CHOOSE i \in Entries(c) : TRUE].out

Contains(s, p) == \E i \in 1..Len(s) : IsPrefixAt(p, s, i)
HasScheme(s) == Contains(s, S_http) \/ Contains(s, S_https)
HasShape(s) == \E k \in 1..Len(IdShapes) : Contains(s, IdShapes[k])
AllBlank(s) == \A i \in 1..Len(s) : s[i] \in WhiteSpace

\* The input is missing or empty, holds no http(s) URL, or holds none of
\* the three YouTube URL shapes.
NoRecognizableUrl ==
    \/ ~body.hasInput
    \/ body.input = <<>>
    \/ ~HasScheme(body.input)
    \/ ~HasShape(body.input)

\* C1: a request whose input is missing, empty or without a recognizable
\* YouTube URL is answered 400 with an invalid-input error, and no outbound
\* call is ever issued for it.
C1_InvalidInputNoCalls ==
    NoRecognizableUrl =>
        /\ calls = <<>>
        /\ pc \in {"start", "done"}
        /\ pc = "done" =>
            /\ res.status = 400
            /\ res.error \in {"Input is required", "Invalid YouTube URL"}

C1_Witness ==
    /\ pc = "done"
    /\ body.hasInput /\ HasScheme(body.input) /\ ~HasShape(body.input)
    /\ res.status = 400 /\ res.error = "Invalid YouTube URL"
    /\ calls = <<>>

\* The page stage failed: the fetch threw, or the listing is absent,
\* unparseable or empty.
PageFailed ==
    /\ Issued("page")
    /\ \/ Came("page", "threw")
       \/ /\ Came("page", "ok")
          /\ \/ OutOf("page").kind \in {"noListing", "unparseable"}
             \/ OutOf("page").kind = "listing" /\ OutOf("page").n = 0

\* The caption document came back and parses to nothing but whitespace.
TranscriptBlank ==
    /\ Issued("caption")
    /\ OutOf("caption").kind = "response"
    /\ AllBlank(parseCaptions(OutOf("caption").text))

\* C2: with a valid video id, a failure to locate the captions, a caption
\* fetch that throws, or an empty or whitespace-only transcript ends the
\* request with the 400 caption error, and no inference call is made.
C2_CaptionFailure400 ==
    (videoId # <<>> /\ (PageFailed \/ Came("caption", "threw") \/ TranscriptBlank)) =>
        /\ pc = "done"
        /\ res = Res400(CaptionError)
        /\ ~Issued("inference")
        /\ ~request.sent

C2_Witness ==
    /\ pc = "done"
    /\ videoId # <<>>
    /\ TranscriptBlank
    /\ parseCaptions(OutOf("caption").text) # <<>>
    /\ res.status = 400
    /\ ~Issued("inference")

\* C3: when the inference call throws, the request ends with a 500 response
\* whose message is the error's message; nothing of a 200 response (answer,
\* title, thumbnail, video URL) is sent and no metadata lookup is made.
C3_InferenceFailure500 ==
    Came("inference", "threw") =>
        /\ pc = "done"
        /\ res.status = 500
        /\ res.message = OutOf("inference").message
        /\ res.analysis = <<>> /\ res.title = ""
        /\ res.thumbnailUrl = <<>> /\ res.videoUrl = <<>>
        /\ ~Issued("oembed")

C3_Witness ==
    /\ pc = "done"
    /\ Came("inference", "threw")
    /\ res.status = 500
    /\ res.message = "529 overloaded_error"

OembedFailed ==
    OutOf("oembed").kind \in {"throws", "notOk", "badJson", "jsonNull"}

\* C4: once the inference call has succeeded the response is 200 whatever
\* the metadata lookup does; a lookup that throws, is not ok or has a bad
\* body leaves the default title and thumbnail, a body without a title or
\* thumbnail leaves that default, and videoUrl is the watch URL of the id.
C4_MetadataNeverFails ==
    Came("inference", "ok") =>
        /\ pc \in {"oembed", "done"}
        /\ res.status \in {0, 200}
        /\ pc = "done" =>
            /\ res.status = 200
            /\ res.videoUrl = watchUrlOf(videoId)
            /\ OembedFailed =>
                /\ res.title = "YouTube Video"
                /\ res.thumbnailUrl = defaultThumbnail(videoId)
            /\ (OutOf("oembed").kind = "object" /\ OutOf("oembed").title = "") =>
                res.title = "YouTube Video"
            /\ (OutOf("oembed").kind = "object" /\ OutOf("oembed").thumbnail_url = <<>>) =>
                res.thumbnailUrl = defaultThumbnail(videoId)

C4_Witness ==
    /\ pc = "done"
    /\ Came("inference", "ok")
    /\ OutOf("oembed").kind = "jsonNull"
    /\ res.status = 200
    /\ res.title = "YouTube Video"
    /\ res.thumbnailUrl = defaultThumbnail(videoId)

\* The transcript as parsed from the caption document that came back.
RawTranscript == parseCaptions(OutOf("caption").text)

\* C5 (as stated): the transcript in every inference request sent is at
\* most maxChars long.
C5_Original ==
    request.sent => Len(request.transcript) <= maxChars

\* C5 (amended): the transcript in every inference request sent is at most
\* maxChars plus the marker's length long; a raw transcript of at most
\* maxChars characters is sent whole, a longer one as its first maxChars
\* characters followed by the marker.
C5_BoundedByBudgetPlusMarker ==
    request.sent =>
        /\ Len(request.transcript) <= maxChars + Len(Marker)
        /\ Len(RawTranscript) <= maxChars => request.transcript = RawTranscript
        /\ Len(RawTranscript) > maxChars =>
            request.transcript = SubSeq(RawTranscript, 1, maxChars) \o Marker

C5_Witness ==
    /\ request.sent
    /\ Len(RawTranscript) > maxChars
    /\ Len(request.transcript) = maxChars + Len(Marker)

\* C8: a caption fetch that comes back with a non-success status, or
\* throws, ends the request with the 400 caption error; its body is never
\* parsed into a transcript that reaches the inference call.
C8_NonSuccessCaptionRejected ==
    (Came("caption", "httpError") \/ Came("caption", "threw")) =>
        /\ pc = "done"
        /\ res = Res400(CaptionError)
        /\ ~Issued("inference")
        /\ ~request.sent

English(t) ==
    \/ t.languageCode = "en"
    \/ /\ t.hasVssId
       /\ \E j \in 1..(Len(t.vssId) - 1) : t.vssId[j] = "e" /\ t.vssId[j + 1] = "n"

\* C9: the caption URL requested is the baseUrl of the first listed track
\* that is English by languageCode or vssId, or of the first listed track
\* when there is none; the list is held as the page listed it (a listed
\* list, every track at its listed position).
C9_FirstEnglishElseFirst ==
    pc = "captionFetch" =>
        /\ captionTracks \in TrackLists
        /\ Len(captionTracks) = OutOf("page").n
        /\ LET eng == {i \in 1..Len(captionTracks) : English(captionTracks[i])}
           IN /\ eng = {} => captionUrl = captionTracks[1].baseUrl
              /\ eng # {} =>
                    \E i \in eng : /\ \A j \in eng : i <= j
                                   /\ captionUrl = captionTracks[i].baseUrl

C9_Witness ==
    /\ pc = "captionFetch"
    /\ Len(captionTracks) = 2
    /\ ~English(captionTracks[1])
    /\ English(captionTracks[2])
    /\ captionTracks[2].languageCode # "en"
    /\ captionUrl = captionTracks[2].baseUrl

\* A call that failed: it threw or, for the caption document, came back
\* with a non-success status.
FailedAt(i) ==
    \/ calls[i].ret = "threw"
    \/ calls[i].call = "caption" /\ calls[i].ret = "httpError"

\* The calls are issued in pipeline order, each at most once.
CallsInOrderOnce ==
    /\ Len(calls) <= Len(CallNames)
    /\ \A i \in 1..Len(calls) : calls[i].call = CallNames[i]

\* C10: each outbound call is issued at most once, in the order page,
\* caption, inference, oembed, and only after every earlier call came back
\* without failure: a failed page fetch, caption fetch or inference call is
\* followed by no further call.
C10_SequentialNoCallAfterFailure ==
    /\ CallsInOrderOnce
    /\ \A i \in 1..Len(calls) :
          (i < Len(calls)) => (calls[i].ret # "pending" /\ ~FailedAt(i))

\* C6: budgeting is idempotent: the result budgeted again at the same limit
\* is unchanged, and a string within the limit is returned unchanged.
C6_BudgetIdempotent ==
    /\ bpc = "twice" => bout2 = bout
    /\ (bpc \in {"once", "twice"} /\ Len(bt) <= bmax) => bout = bt

C6_Witness ==
    /\ bpc = "twice"
    /\ Len(bt) > bmax
    /\ bout = SubSeq(bt, 1, bmax) \o Marker
    /\ bout2 = bout

EntityEscapes == {E_amp, E_lt, E_gt, E_quot, E_apos}

\* Every element came out as one segment, in order.
SegmentsMatchElements ==
    /\ Len(texts) = Len(elems)
    /\ parsed = join(texts, <<" ">>)

\* C7 (as stated): a document of N <text> elements parses to N segments
\* joined by single spaces, with no entity escape and no '<' or '>' left.
C7_Original ==
    ppc = "parsed" =>
        /\ SegmentsMatchElements
        /\ \A e \in EntityEscapes : ~Contains(parsed, e)
        /\ \A i \in 1..Len(parsed) : parsed[i] \notin {"<", ">"}

\* C7 (amended): a document of N <text> elements parses to N segments
\* joined by single spaces, with no &lt; &gt; &quot; &#39; escape and no
\* line break left.
C7_SegmentsAndFourEscapes ==
    ppc = "parsed" =>
        /\ SegmentsMatchElements
        /\ \A e \in {E_lt, E_gt, E_quot, E_apos} : ~Contains(parsed, e)
        /\ \A i \in 1..Len(parsed) : parsed[i] # "\n"

C7_Witness ==
    /\ ppc = "parsed"
    /\ Len(elems) = 2
    /\ Contains(elems[1].content, E_amp \o <<"l", "t", ";">>)
    /\ Len(texts) = 2
    /\ texts[1] = <<"<">>

====
